---- MODULE Spec2Model ----
(***************************************************************************)
(* Model of pysrpm/convert.py: the conversion of PEP 508 environment       *)
(* markers and PEP 440 version specifiers to RPM dependency syntax.        *)
(*                                                                         *)
(* Python values are modelled as follows.                                  *)
(*   str            a TLA+ string (a sequence of characters)               *)
(*   a marker leaf  [type |-> "leaf", variable, operator, value]           *)
(*   'and' / 'or'   [type |-> "conn", token]                               *)
(*   a marker list  [type |-> "group", children]                           *)
(*   None           [type |-> "none"]                                      *)
(*   a returned str [kind |-> "str", s]                                    *)
(*   a returned bool[kind |-> "bool", b]                                   *)
(*   a raised error [kind |-> "raise", exc, msg]                           *)
(***************************************************************************)
EXTENDS Integers, Sequences, FiniteSets, TLC

VARIABLES fn, marker, environments, templates, package, version, result, translated

vars == <<fn, marker, environments, templates, package, version, result, translated>>

(***************************************************************************)
(* Bounds of the model.                                                    *)
(***************************************************************************)
\* longest list of candidate values of one environment key
MaxCandidates == 2
\* most leaves in one marker list, nested lists included
MaxLeaves == 3
\* deepest nesting of a marker list inside the top-level list
MaxDepth == 1
\* most specifiers in one specifier set
MaxSpecs == 2

(***************************************************************************)
(* Python string primitives.                                               *)
(***************************************************************************)
Chars(s) == [i \in 1..Len(s) |-> SubSeq(s, i, i)]

\* sep.join(items[lo..hi]), halving the range to keep the recursion shallow
RECURSIVE JoinRange(_, _, _, _)
JoinRange(sep, items, lo, hi) ==
    IF lo > hi THEN ""
    ELSE IF lo = hi THEN items[lo]
    ELSE LET mid == (lo + hi) \div 2
         IN  JoinRange(sep, items, lo, mid) \o sep \o JoinRange(sep, items, mid + 1, hi)

Join(sep, items) == JoinRange(sep, items, 1, Len(items))

StartsWith(s, prefix) ==
    /\ Len(prefix) <= Len(s)
    /\ SubSeq(s, 1, Len(prefix)) = prefix

Contains(s, sub) ==
    \E i \in 1..(Len(s) - Len(sub) + 1) : SubSeq(s, i, i + Len(sub) - 1) = sub

\* str.split(): the maximal runs of characters other than whitespace
RECURSIVE SplitFrom(_, _, _)
SplitFrom(s, i, word) ==
    IF i > Len(s) THEN (IF word = "" THEN <<>> ELSE <<word>>)
    ELSE IF SubSeq(s, i, i) = " "
         THEN (IF word = "" THEN <<>> ELSE <<word>>) \o SplitFrom(s, i + 1, "")
         ELSE SplitFrom(s, i + 1, word \o SubSeq(s, i, i))

Split(s) == SplitFrom(s, 1, "")

\* str.rstrip(chars): drop every trailing character that is one of chars
RECURSIVE RStrip(_, _)
RStrip(s, chars) ==
    IF Len(s) > 0 /\ Contains(chars, SubSeq(s, Len(s), Len(s)))
    THEN RStrip(SubSeq(s, 1, Len(s) - 1), chars)
    ELSE s

\* template.format(arch=arch): every replacement field {arch} becomes arch
RECURSIVE FormatFrom(_, _, _)
FormatFrom(template, i, arch) ==
    IF i > Len(template) THEN ""
    ELSE IF i + 5 <= Len(template) /\ SubSeq(template, i, i + 5) = "{arch}"
         THEN arch \o FormatFrom(template, i + 6, arch)
         ELSE SubSeq(template, i, i) \o FormatFrom(template, i + 1, arch)

Format(template, arch) == FormatFrom(template, 1, arch)

Map(f(_), items) == [i \in 1..Len(items) |-> f(items[i])]

(***************************************************************************)
(* Returned values and raised errors.                                      *)
(***************************************************************************)
Str(s) == [kind |-> "str", s |-> s]
Bool(b) == [kind |-> "bool", b |-> b]
Raise(exc, msg) == [kind |-> "raise", exc |-> exc, msg |-> msg]

PyTrue == Bool(TRUE)
PyFalse == Bool(FALSE)

Leaf(variable, operator, value) ==
    [type |-> "leaf", variable |-> variable, operator |-> operator, value |-> value]
Conn(token) == [type |-> "conn", token |-> token]
Group(children) == [type |-> "group", children |-> children]
None == [type |-> "none"]

(***************************************************************************)
(* _rpm_operator_correspondance                                            *)
(***************************************************************************)
_rpm_operator_correspondance ==
    [op \in {"==", "===", "<", "<=", ">=", ">"} |->
        IF op \in {"==", "==="} THEN "=" ELSE op]

(***************************************************************************)
(* _single_marker_to_rpm_condition(marker, templates)                      *)
(***************************************************************************)
VersionVariables == {"python_full_version", "python_version", "implementation_version"}

ArchCondition(operator, value, arch_template) ==
    IF operator = "==" THEN Str("if " \o Format(arch_template, value))
    ELSE IF operator = "!=" THEN Str("without " \o Format(arch_template, value))
    ELSE IF operator = "in"
    THEN LET each(arch) == Format(arch_template, arch)
         IN  Str("if (" \o Join(" or ", Map(each, Split(value))) \o ")")
    ELSE Raise("ValueError", "Unsupported operator " \o operator \o " for platform_machine")

\* faulty variant: the compatible release with the specifier translator's sentinel
CompatibleReleaseZzz(pkg, value) ==
    "(" \o pkg \o " >= " \o value \o " and " \o pkg \o " < " \o value \o "^zzz)"

CompatibleRelease(pkg, value) ==
    "(" \o pkg \o " >= " \o value \o " and " \o pkg \o " < " \o value \o "^next)"

\* faulty variant: no rendering of the operator in
PackageConditionNoIn(pkg, operator, value) ==
    IF operator \in DOMAIN _rpm_operator_correspondance
    THEN Str(pkg \o " " \o _rpm_operator_correspondance[operator] \o " " \o value)
    ELSE IF operator = "~=" THEN Str(CompatibleRelease(pkg, value))
    ELSE IF operator = "!="
    THEN Str("(" \o pkg \o " < " \o value \o " or " \o pkg \o " > " \o value \o ")")
    ELSE Raise("ValueError", "Unsupported operator " \o operator \o " for dependency marker")

PackageCondition(pkg, operator, value) ==
    IF operator \in DOMAIN _rpm_operator_correspondance
    THEN Str(pkg \o " " \o _rpm_operator_correspondance[operator] \o " " \o value)
    ELSE IF operator = "~=" THEN Str(CompatibleRelease(pkg, value))
    ELSE IF operator = "!="
    THEN Str("(" \o pkg \o " < " \o value \o " or " \o pkg \o " > " \o value \o ")")
    ELSE IF operator = "in"
    THEN LET each(each_version) == pkg \o " = " \o each_version
         IN  Str("(" \o Join(" or ", Map(each, Split(value))) \o ")")
    ELSE Raise("ValueError", "Unsupported operator " \o operator \o " for dependency marker")

\* the message of line 53 ends with the repr of the marker tuple, left out above
_single_marker_to_rpm_condition(mk, tmpl) ==
    IF mk.variable = "platform_machine"
    THEN ArchCondition(mk.operator, mk.value, tmpl.python_arch)
    ELSE IF mk.variable \in VersionVariables
    THEN PackageCondition(tmpl.python_abi, mk.operator, mk.value)
    ELSE IF mk.variable = "platform_release"
    THEN PackageCondition("kernel", mk.operator, mk.value)
    ELSE Raise("ValueError", "Unsupported marker " \o mk.variable)

(***************************************************************************)
(* Marker(...).evaluate(...): the truth of  lhs operator "rhs"  for one    *)
(* candidate value lhs of the environment.  The ordering operators follow  *)
(* ValueOrder, which lists the values of the model in increasing order;    *)
(* in / not in are Python's substring tests.                               *)
(***************************************************************************)
ValueOrder ==
    <<"3.8", "3.8 3.9", "3.9", "5.4", "a", "arm", "b", "linux", "win32", "x86_64", "x86_64 arm">>

Rank(v) == CHOOSE i \in 1..Len(ValueOrder) : ValueOrder[i] = v

\* the release prefix a compatible release must share: all but the last segment
RECURSIVE CompatiblePrefix(_)
CompatiblePrefix(v) ==
    IF Len(v) = 0 \/ SubSeq(v, Len(v), Len(v)) = "." THEN v
    ELSE CompatiblePrefix(SubSeq(v, 1, Len(v) - 1))

Holds(operator, lhs, rhs) ==
    IF operator \in {"==", "==="} THEN lhs = rhs
    ELSE IF operator = "!=" THEN lhs # rhs
    ELSE IF operator = "<" THEN Rank(lhs) < Rank(rhs)
    ELSE IF operator = "<=" THEN Rank(lhs) <= Rank(rhs)
    ELSE IF operator = ">=" THEN Rank(lhs) >= Rank(rhs)
    ELSE IF operator = ">" THEN Rank(lhs) > Rank(rhs)
    ELSE IF operator = "~=" THEN Rank(lhs) >= Rank(rhs) /\ StartsWith(lhs, CompatiblePrefix(rhs))
    ELSE IF operator = "in" THEN Contains(rhs, lhs)
    ELSE ~Contains(rhs, lhs)

\* an environment value: one string, or a list of strings
Single(v) == [list |-> FALSE, items |-> <<v>>]
List(vs) == [list |-> TRUE, items |-> vs]

\* line 89-92: one evaluation per element of a list, one for a single value
Evaluations(mk, env) ==
    LET known == env[mk.variable]
    IN  [i \in 1..Len(known.items) |-> Holds(mk.operator, known.items[i], mk.value)]

All(bs) == \A i \in 1..Len(bs) : bs[i]
NoneOf(bs) == \A i \in 1..Len(bs) : ~bs[i]

(***************************************************************************)
(* simplify_marker_to_rpm_condition(marker, environments, templates)       *)
(* The operators return [val, calls]: the value returned (or the error     *)
(* raised) and the leaves handed to _single_marker_to_rpm_condition, in    *)
(* call order.                                                             *)
(***************************************************************************)
Returned(val, calls) == [val |-> val, calls |-> calls]

\* faulty variant: true as soon as one candidate satisfies the comparison
SimplifyLeafAny(mk, env, tmpl) ==
    IF mk.variable \notin DOMAIN env
    THEN Returned(_single_marker_to_rpm_condition(mk, tmpl), <<mk>>)
    ELSE LET evaluations == Evaluations(mk, env)
         IN  IF ~NoneOf(evaluations) THEN Returned(PyTrue, <<>>)
             ELSE IF NoneOf(evaluations) THEN Returned(PyFalse, <<>>)
             ELSE IF mk.variable = "extras" THEN Returned(PyTrue, <<>>)
             ELSE Returned(_single_marker_to_rpm_condition(mk, tmpl), <<mk>>)

\* faulty variant: the leaf is rendered before it is evaluated
SimplifyLeafEager(mk, env, tmpl) ==
    LET rendered == _single_marker_to_rpm_condition(mk, tmpl)
    IN  IF mk.variable \notin DOMAIN env \/ rendered.kind = "raise"
        THEN Returned(rendered, <<mk>>)
        ELSE LET evaluations == Evaluations(mk, env)
             IN  IF All(evaluations) THEN Returned(PyTrue, <<>>)
                 ELSE IF NoneOf(evaluations) THEN Returned(PyFalse, <<>>)
                 ELSE IF mk.variable = "extras" THEN Returned(PyTrue, <<>>)
                 ELSE Returned(rendered, <<mk>>)

\* lines 84-94: type(marker) is tuple
SimplifyLeaf(mk, env, tmpl) ==
    IF mk.variable \notin DOMAIN env
    THEN Returned(_single_marker_to_rpm_condition(mk, tmpl), <<mk>>)
    ELSE LET evaluations == Evaluations(mk, env)
         IN  IF All(evaluations) THEN Returned(PyTrue, <<>>)
             ELSE IF NoneOf(evaluations) THEN Returned(PyFalse, <<>>)
             ELSE IF mk.variable = "extras" THEN Returned(PyTrue, <<>>)
             ELSE Returned(_single_marker_to_rpm_condition(mk, tmpl), <<mk>>)

\* line 99: the positions of the 'or' tokens of the list
Splits(children) ==
    LET pos == {n \in 1..Len(children) : children[n] = Conn("or")}
        RECURSIVE Sorted(_)
        Sorted(S) == IF S = {} THEN <<>>
                     ELSE LET m == CHOOSE x \in S : \A y \in S : x <= y
                          IN  <<m>> \o Sorted(S \ {m})
    IN  Sorted(pos)

\* lines 100-101: one clause per run between 'or' tokens, without 'and' and True
Clauses(children, simple_markers) ==
    LET splits == Splits(children)
        before == <<0>> \o splits
        last == splits \o <<Len(children) + 1>>
        Kept(mk) == mk # Str("and") /\ mk # PyTrue
    IN  [k \in 1..Len(before) |->
            SelectSeq(SubSeq(simple_markers, before[k] + 1, last[k] - 1), Kept)]

\* line 102: drop the clauses holding a False, promote the short ones
PromoteClause(cl) ==
    IF Len(cl) = 0 THEN PyTrue
    ELSE IF Len(cl) = 1 THEN cl[1]
    ELSE [kind |-> "list", items |-> cl]

\* faulty variant: a clause equal to an earlier one is dropped
DnfDeduplicated(clauses) ==
    LET Survives(cl) == ~(\E i \in 1..Len(cl) : cl[i] = PyFalse)
        kept == SelectSeq(clauses, Survives)
        first == {k \in 1..Len(kept) : \A j \in 1..(k - 1) : kept[j] # kept[k]}
        RECURSIVE Pick(_)
        Pick(k) == IF k > Len(kept) THEN <<>>
                   ELSE (IF k \in first THEN <<kept[k]>> ELSE <<>>) \o Pick(k + 1)
    IN  Map(PromoteClause, Pick(1))

Dnf(clauses) ==
    LET Survives(cl) == ~(\E i \in 1..Len(cl) : cl[i] = PyFalse)
    IN  Map(PromoteClause, SelectSeq(clauses, Survives))

\* ' and '.join(x): Python iterates a list by element and a str by character
AndJoin(x) ==
    IF x.kind = "list" THEN Join(" and ", [i \in 1..Len(x.items) |-> x.items[i].s])
    ELSE Join(" and ", Chars(x.s))

\* line 105: ' and '.join(mk) if type(mk) is list else mk
OrOperand(mk) ==
    IF mk.kind = "list" THEN Join(" and ", [i \in 1..Len(mk.items) |-> mk.items[i].s])
    ELSE mk.s

\* faulty variant: no surviving clause gives True
ReduceEmptyTrue(dnf) ==
    IF Len(dnf) = 0 THEN PyTrue
    ELSE IF \E i \in 1..Len(dnf) : dnf[i] = PyTrue THEN PyTrue
    ELSE IF Len(dnf) = 1 THEN Str(AndJoin(dnf[1]))
    ELSE Str("(" \o Join(" or ", Map(OrOperand, dnf)) \o ")")

\* lines 103-105
Reduce(dnf) ==
    IF Len(dnf) = 0 THEN PyFalse
    ELSE IF \E i \in 1..Len(dnf) : dnf[i] = PyTrue THEN PyTrue
    ELSE IF Len(dnf) = 1 THEN Str(AndJoin(dnf[1]))
    ELSE Str("(" \o Join(" or ", Map(OrOperand, dnf)) \o ")")

RECURSIVE Flatten(_)
Flatten(seqs) == IF Len(seqs) = 0 THEN <<>> ELSE Head(seqs) \o Flatten(Tail(seqs))

\* faulty variant: a sub-expression that cannot be rendered is dropped as if true
RECURSIVE simplify_dropping_errors(_, _, _)
simplify_dropping_errors(mk, env, tmpl) ==
    IF mk.type = "none" THEN Returned(PyTrue, <<>>)
    ELSE IF mk.type = "conn" THEN Returned(Str(mk.token), <<>>)
    ELSE IF mk.type = "const" THEN Returned(Bool(mk.b), <<>>)
    ELSE IF mk.type = "leaf"
    THEN LET r == SimplifyLeaf(mk, env, tmpl)
         IN  IF r.val.kind = "raise" THEN Returned(PyTrue, r.calls) ELSE r
    ELSE LET n == Len(mk.children)
             each == <<>> \o [i \in 1..n |->
                                 simplify_dropping_errors(mk.children[i], env, tmpl)]
             simple_markers == [i \in 1..n |-> each[i].val]
         IN  Returned(Reduce(Dnf(Clauses(mk.children, simple_markers))),
                      Flatten([i \in 1..n |-> each[i].calls]))

RECURSIVE simplify_marker_to_rpm_condition(_, _, _)
simplify_marker_to_rpm_condition(mk, env, tmpl) ==
    IF mk.type = "none" THEN Returned(PyTrue, <<>>)
    ELSE IF mk.type = "conn" THEN Returned(Str(mk.token), <<>>)
    ELSE IF mk.type = "const" THEN Returned(Bool(mk.b), <<>>)
    ELSE IF mk.type = "leaf" THEN SimplifyLeaf(mk, env, tmpl)
    ELSE LET n == Len(mk.children)
             each == <<>> \o [i \in 1..n |->
                                 simplify_marker_to_rpm_condition(mk.children[i], env, tmpl)]
             raising == {i \in 1..n : each[i].val.kind = "raise"}
         IN  IF raising # {}
             THEN LET first == CHOOSE i \in raising : \A j \in raising : i <= j
                  IN  Returned(each[first].val,
                               Flatten([i \in 1..first |-> each[i].calls]))
             ELSE LET simple_markers == [i \in 1..n |-> each[i].val]
                  IN  Returned(Reduce(Dnf(Clauses(mk.children, simple_markers))),
                               Flatten([i \in 1..n |-> each[i].calls]))

(***************************************************************************)
(* specifier_to_rpm_version(package, version)                              *)
(***************************************************************************)
Specifier(operator, v) == [operator |-> operator, version |-> v]

\* faulty variant: a != specifier appends nothing
SpecClausesDropNe(pkg, spec) ==
    LET v == RStrip(spec.version, ".*")
    IN  IF spec.operator \in DOMAIN _rpm_operator_correspondance
        THEN <<pkg \o " " \o _rpm_operator_correspondance[spec.operator] \o " " \o v>>
        ELSE IF spec.operator = "~="
        THEN <<pkg \o " >= " \o v, pkg \o " < " \o v \o "^zzz">>
        ELSE <<>>

\* lines 120-128: the clauses one specifier appends to rpm_specs
SpecClauses(pkg, spec) ==
    LET v == RStrip(spec.version, ".*")
    IN  IF spec.operator \in DOMAIN _rpm_operator_correspondance
        THEN <<pkg \o " " \o _rpm_operator_correspondance[spec.operator] \o " " \o v>>
        ELSE IF spec.operator = "~="
        THEN <<pkg \o " >= " \o v, pkg \o " < " \o v \o "^zzz">>
        ELSE IF spec.operator = "!="
        THEN <<"(" \o pkg \o " < " \o v \o " or " \o pkg \o " > " \o v \o ")">>
        ELSE <<>>

RECURSIVE RpmSpecs(_, _)
RpmSpecs(pkg, specs) ==
    IF Len(specs) = 0 THEN <<>>
    ELSE SpecClauses(pkg, Head(specs)) \o RpmSpecs(pkg, Tail(specs))

specifier_to_rpm_version(pkg, specs) ==
    LET rpm_specs == RpmSpecs(pkg, specs)
    IN  IF Len(rpm_specs) > 0 THEN Join(", ", rpm_specs) ELSE pkg

(***************************************************************************)
(* The inputs of the model.                                                *)
(***************************************************************************)
\* the environment markers the model draws leaves from: the five the Leaf
\* Translator renders, and two it has no rendering for
MarkerVariables ==
    VersionVariables \cup {"platform_machine", "platform_release", "sys_platform", "extra"}

\* the comparison operators of a PEP 508 marker
MarkerOperators == {"==", "===", "<", "<=", ">=", ">", "~=", "!=", "in", "not in"}

\* the values an environment may give a key
CandidatesOf(key) ==
    IF key \in VersionVariables THEN {"3.8", "3.9"}
    ELSE IF key = "platform_machine" THEN {"x86_64", "arm"}
    ELSE IF key = "platform_release" THEN {"5.4", "3.9"}
    ELSE IF key = "sys_platform" THEN {"linux", "win32"}
    ELSE {"a", "b"}

\* the right-hand sides of a leaf: a candidate, or a space-separated list
ValuesOf(variable) ==
    CandidatesOf(variable) \cup
        (IF variable \in VersionVariables THEN {"3.8 3.9"}
         ELSE IF variable = "platform_machine" THEN {"x86_64 arm"}
         ELSE {})

Leaves ==
    {Leaf(v, o, x) : <<v, o, x>> \in
        {t \in MarkerVariables \X MarkerOperators \X
               {ValueOrder[i] : i \in 1..Len(ValueOrder)} : t[3] \in ValuesOf(t[1])}}

Templates ==
    {[python_abi |-> "python(abi)", python_arch |-> "{arch}"],
     [python_abi |-> "python3", python_arch |-> "arch({arch})"]}

ListTemplates == {[python_abi |-> "python(abi)", python_arch |-> "{arch}"]}

EmptyEnv == [k \in {} |-> Single("")]

SeqsUpTo(S, n) == UNION {[1..m -> S] : m \in 0..n}

KnownValues(key) ==
    {Single(v) : v \in CandidatesOf(key)} \cup
    {List(vs) : vs \in SeqsUpTo(CandidatesOf(key), MaxCandidates)}

EnvKeys == MarkerVariables \cup {"extras"}

\* the environment maps of a call on one leaf: empty, or one key
Envs == {EmptyEnv} \cup
        UNION {{[k \in {key} |-> known] : known \in KnownValues(key)} : key \in EnvKeys}

\* the leaves of the marker lists: one of each outcome under ListEnvs
ListLeaves ==
    {Leaf("python_version", "==", "3.9"),
     Leaf("python_version", "<", "3.9"),
     Leaf("platform_release", ">=", "5.4"),
     Leaf("platform_machine", "in", "x86_64 arm"),
     Leaf("sys_platform", "==", "win32")}

\* python_version known, all the same, mixed; sys_platform known as well
ListEnvs ==
    {[k \in {"python_version"} |-> Single("3.9")],
     [k \in {"python_version"} |-> List(<<"3.8", "3.9">>)],
     [k \in {"python_version", "sys_platform"} |->
         IF k = "python_version" THEN List(<<"3.9", "3.9">>) ELSE Single("linux")]}

\* the leaves of a marker list, nested lists included
RECURSIVE LeafCount(_)
LeafCount(children) ==
    IF Len(children) = 0 THEN 0
    ELSE LET first == Head(children)
         IN  (IF first.type = "leaf" THEN 1
              ELSE IF first.type = "group" THEN LeafCount(first.children)
              ELSE 0) + LeafCount(Tail(children))

\* how deep lists nest inside a marker list
RECURSIVE Nesting(_)
Nesting(children) ==
    IF Len(children) = 0 THEN 0
    ELSE LET first == Head(children)
             rest == Nesting(Tail(children))
             here == IF first.type = "group" THEN 1 + Nesting(first.children) ELSE 0
         IN  IF here > rest THEN here ELSE rest

Packages == {"foo", "python3dist(bar)"}

\* the operators of a PEP 440 specifier
SpecifierOperators == {"==", "===", "<", "<=", ">=", ">", "~=", "!="}

\* a trailing .* is allowed with == and != only
Specifiers ==
    {Specifier(o, v) : o \in SpecifierOperators, v \in {"1.4", "2.0"}} \cup
    {Specifier(o, "1.*") : o \in {"==", "!="}}

\* the iteration orders of the specifier sets: no specifier twice
SpecifierSets ==
    {ss \in SeqsUpTo(Specifiers, MaxSpecs) :
        \A i, j \in 1..Len(ss) : i # j => ss[i] # ss[j]}

(***************************************************************************)
(* The state: the call in progress (fn is "idle" between calls), its       *)
(* arguments and what it returned.  The functions are pure: a call reads   *)
(* nothing that an earlier call left behind.  While idle, marker holds the *)
(* marker list parsed so far (None before the first leaf).                 *)
(***************************************************************************)
NoResult == [kind |-> "none"]
NoTemplates == [python_abi |-> "", python_arch |-> ""]

Init ==
    /\ fn = "idle"
    /\ marker = None
    /\ environments = EmptyEnv
    /\ templates = NoTemplates
    /\ package = ""
    /\ version = <<>>
    /\ result = NoResult
    /\ translated = <<>>

\* Marker(...): the parser appends a comparison to the list, after a connective
\* when the list is not empty
ParseLeaf ==
    /\ fn = "idle"
    /\ \E mk \in ListLeaves, c \in {"and", "or"} :
        LET children == IF marker = None THEN <<>> ELSE marker.children
        IN  /\ LeafCount(children) < MaxLeaves
            /\ marker' = Group(IF marker = None THEN <<mk>>
                                ELSE children \o <<Conn(c), mk>>)
    /\ UNCHANGED <<fn, environments, templates, package, version, result, translated>>

\* Marker(...): parentheses make a nested list of the last sub-expressions
\* (two or more) of the list
ParseParens ==
    /\ fn = "idle"
    /\ marker # None
    /\ \E j \in 1..(Len(marker.children) - 1) :
        LET inner == SubSeq(marker.children, j, Len(marker.children))
        IN  /\ marker.children[j].type # "conn"
            /\ 1 + Nesting(inner) <= MaxDepth
            /\ marker' = Group(SubSeq(marker.children, 1, j - 1) \o <<Group(inner)>>)
    /\ UNCHANGED <<fn, environments, templates, package, version, result, translated>>

\* _single_marker_to_rpm_condition(marker, templates)
CallSingleMarker ==
    /\ fn = "idle"
    /\ marker = None
    /\ \E mk \in Leaves, tmpl \in Templates :
        /\ fn' = "_single_marker_to_rpm_condition"
        /\ marker' = mk
        /\ templates' = tmpl
        /\ environments' = EmptyEnv
        /\ result' = _single_marker_to_rpm_condition(mk, tmpl)
        /\ translated' = <<mk>>
        /\ UNCHANGED <<package, version>>

Simplify(mk, env, tmpl) ==
    LET r == simplify_marker_to_rpm_condition(mk, env, tmpl)
    IN  /\ fn' = "simplify_marker_to_rpm_condition"
        /\ marker' = mk
        /\ environments' = env
        /\ templates' = tmpl
        /\ result' = r.val
        /\ translated' = r.calls
        /\ UNCHANGED <<package, version>>

\* simplify_marker_to_rpm_condition(None, ...)
SimplifyNone ==
    /\ fn = "idle"
    /\ marker = None
    /\ \E env \in ListEnvs, tmpl \in Templates : Simplify(None, env, tmpl)

\* simplify_marker_to_rpm_condition(True, ...), (False, ...)
SimplifyBool ==
    /\ fn = "idle"
    /\ marker = None
    /\ \E b \in BOOLEAN, env \in ListEnvs, tmpl \in Templates :
        Simplify([type |-> "const", b |-> b], env, tmpl)

\* simplify_marker_to_rpm_condition on one (variable, operator, value) tuple
SimplifyTuple ==
    /\ fn = "idle"
    /\ marker = None
    /\ \E mk \in Leaves, env \in Envs, tmpl \in Templates : Simplify(mk, env, tmpl)

\* simplify_marker_to_rpm_condition on a marker list (Marker._markers)
SimplifyList ==
    /\ fn = "idle"
    /\ marker # None
    /\ \E env \in ListEnvs, tmpl \in ListTemplates : Simplify(marker, env, tmpl)

\* specifier_to_rpm_version(package, version)
SpecifierToRpmVersion ==
    /\ fn = "idle"
    /\ marker = None
    /\ \E pkg \in Packages, specs \in SpecifierSets :
        /\ fn' = "specifier_to_rpm_version"
        /\ package' = pkg
        /\ version' = specs
        /\ result' = Str(specifier_to_rpm_version(pkg, specs))
        /\ marker' = None
        /\ environments' = EmptyEnv
        /\ translated' = <<>>
        /\ templates' = NoTemplates

\* the call has returned (or raised) and its values are discarded
Return ==
    /\ fn # "idle"
    /\ fn' = "idle"
    /\ marker' = None
    /\ environments' = EmptyEnv
    /\ package' = ""
    /\ version' = <<>>
    /\ result' = NoResult
    /\ translated' = <<>>
    /\ templates' = NoTemplates

Next ==
    \/ Return
    \/ ParseLeaf
    \/ ParseParens
    \/ CallSingleMarker
    \/ SimplifyNone
    \/ SimplifyBool
    \/ SimplifyTuple
    \/ SimplifyList
    \/ SpecifierToRpmVersion

Spec == Init /\ [][Next]_vars

\* the calls on one leaf, on None and on a constant
NextMarker ==
    \/ Return
    \/ CallSingleMarker
    \/ SimplifyNone
    \/ SimplifyBool
    \/ SimplifyTuple

SpecMarker == Init /\ [][NextMarker]_vars

\* the calls on a marker list
NextList ==
    \/ Return
    \/ ParseLeaf
    \/ ParseParens
    \/ SimplifyList

SpecList == Init /\ [][NextList]_vars

\* the calls of the specifier translator
NextVersion ==
    \/ Return
    \/ SpecifierToRpmVersion

SpecVersion == Init /\ [][NextVersion]_vars

(***************************************************************************)
(* The claims.  The expected values are computed here from the marker as   *)
(* the specification words them, not by the operators that model the code. *)
(***************************************************************************)
OnSingleMarker == fn = "_single_marker_to_rpm_condition"
OnTuple == fn = "simplify_marker_to_rpm_condition" /\ marker.type = "leaf"
OnList == fn = "simplify_marker_to_rpm_condition" /\ marker.type = "group"
OnSpecifier == fn = "specifier_to_rpm_version"

\* what one sub-expression of the list folds to in the environment of the call
Fold(item) == simplify_marker_to_rpm_condition(item, environments, templates).val

\* the OR-clauses of a list: the sub-expressions between 'or' tokens, in order
RECURSIVE OrClauses(_)
OrClauses(children) ==
    IF Len(children) = 0 THEN << <<>> >>
    ELSE LET first == Head(children)
             rest == OrClauses(Tail(children))
         IN  IF first = Conn("or") THEN << <<>> >> \o rest
             ELSE IF first = Conn("and") THEN rest
             ELSE << <<first>> \o Head(rest) >> \o Tail(rest)

\* a clause folded: what each of its elements folds to
Folded(clause) == [i \in 1..Len(clause) |-> Fold(clause[i])]
HasFalse(folded) == \E i \in 1..Len(folded) : folded[i] = PyFalse
AllTrue(folded) == \A i \in 1..Len(folded) : folded[i] = PyTrue
IsSymbolic(r) == r.kind = "str"
Symbolic(r) == r.s

\* the clauses that survive folding, each reduced to its symbolic elements
Surviving(children) ==
    LET folded == Map(Folded, OrClauses(children))
        NoFalse(f) == ~HasFalse(f)
        Remaining(f) == Map(Symbolic, SelectSeq(f, IsSymbolic))
    IN  Map(Remaining, SelectSeq(folded, NoFalse))

AndRendered(elements) == Join(" and ", elements)

\* every sub-expression of the list folds to true, false or a string
FoldsWithoutError(children) ==
    \A i \in 1..Len(children) : Fold(children[i]).kind # "raise"

\* C1: on a list of which exactly one OR-clause survives folding, the result
\* is that clause rendered: its one remaining element unchanged, or its
\* several remaining elements joined with " and " in source order.
C1_SingleClauseRendered ==
    (OnList /\ FoldsWithoutError(marker.children)) =>
        LET surviving == Surviving(marker.children)
        IN  (Len(surviving) = 1 /\ Len(surviving[1]) >= 1) =>
                result = Str(IF Len(surviving[1]) = 1 THEN surviving[1][1]
                             ELSE AndRendered(surviving[1]))

\* the Boolean value of a list whose leaves all fold to constants, 'and'
\* binding tighter than 'or'
RECURSIVE Constant(_), Truth(_)
Constant(item) ==
    IF item.type = "group"
    THEN \A i \in 1..Len(item.children) :
             item.children[i].type = "conn" \/ Constant(item.children[i])
    ELSE Fold(item).kind = "bool"
Truth(item) ==
    IF item.type = "group"
    THEN LET clauses == OrClauses(item.children)
         IN  \E k \in 1..Len(clauses) : \A i \in 1..Len(clauses[k]) : Truth(clauses[k][i])
    ELSE Fold(item).b

\* C2: the result of a list is false exactly when every OR-clause holds an
\* element folded to false, true exactly when some clause has all its
\* elements folded to true, and a string otherwise; a list of constants gives
\* its Boolean value.
C2_ConstantFolding ==
    (OnList /\ FoldsWithoutError(marker.children)) =>
        LET folded == Map(Folded, OrClauses(marker.children))
            everyFalse == \A k \in 1..Len(folded) : HasFalse(folded[k])
            someTrue == \E k \in 1..Len(folded) : AllTrue(folded[k])
        IN  /\ (result = PyFalse) <=> everyFalse
            /\ (result = PyTrue) <=> someTrue
            /\ (~everyFalse /\ ~someTrue) => result.kind = "str"
            /\ Constant(marker) => result = Bool(Truth(marker))

\* (true and false) or true gives true
C2_Witness ==
    /\ OnList
    /\ Len(marker.children) = 5
    /\ marker.children[2] = Conn("and")
    /\ marker.children[4] = Conn("or")
    /\ Fold(marker.children[1]) = PyTrue
    /\ Fold(marker.children[3]) = PyFalse
    /\ Fold(marker.children[5]) = PyTrue
    /\ result = PyTrue

\* the candidates of the leaf's variable and how many satisfy the comparison
Candidates == environments[marker.variable].items
Satisfies(i) == Holds(marker.operator, Candidates[i], marker.value)
HoldsForAll == \A i \in 1..Len(Candidates) : Satisfies(i)
HoldsForNone == \A i \in 1..Len(Candidates) : ~Satisfies(i)
Known == OnTuple /\ marker.variable \in DOMAIN environments

\* the variables and operators the Leaf Translator renders
RenderedVariables == VersionVariables \cup {"platform_machine", "platform_release"}
ArchOperators == {"==", "!=", "in"}
PackageOperators == {"==", "===", "<", "<=", ">=", ">", "~=", "!=", "in"}
UnsupportedVariable == marker.variable \notin RenderedVariables
UnsupportedOperator ==
    \/ marker.variable = "platform_machine" /\ marker.operator \notin ArchOperators
    \/ /\ marker.variable \in VersionVariables \cup {"platform_release"}
       /\ marker.operator \notin PackageOperators

\* C3, as stated: true iff the comparison holds for every candidate, false iff
\* it holds for none, otherwise the string of the Leaf Translator.
C3_AsStated ==
    Known =>
        /\ (result = PyTrue) <=> HoldsForAll
        /\ (result = PyFalse) <=> HoldsForNone
        /\ (~HoldsForAll /\ ~HoldsForNone) =>
               /\ result.kind = "str"
               /\ result = _single_marker_to_rpm_condition(marker, templates)

\* C3, as amended: true iff the comparison holds for every candidate (an empty
\* sequence included), false iff there is a candidate and it holds for none,
\* otherwise the outcome of the Leaf Translator for that leaf, a string or
\* its error, never a boolean.
C3_FoldLeaf ==
    Known =>
        /\ (result = PyTrue) <=> HoldsForAll
        /\ (result = PyFalse) <=> (HoldsForNone /\ Len(Candidates) > 0)
        /\ (~HoldsForAll /\ ~HoldsForNone) =>
               /\ result.kind # "bool"
               /\ result = _single_marker_to_rpm_condition(marker, templates)
               /\ (~UnsupportedVariable /\ ~UnsupportedOperator) => result.kind = "str"

\* python_version == "3.9" with python_version known as ["3.8", "3.9"]
C3_Witness ==
    /\ Known
    /\ marker = Leaf("python_version", "==", "3.9")
    /\ environments["python_version"] = List(<<"3.8", "3.9">>)
    /\ result.kind = "str"

\* C4: with the environment {"extras": ["a", "b"]} the leaf extra == "a"
\* evaluates to true, without raising.
C4_ExtrasMixedIsTrue ==
    (/\ OnTuple
     /\ marker = Leaf("extra", "==", "a")
     /\ DOMAIN environments = {"extras"}
     /\ environments["extras"] = List(<<"a", "b">>)) => result = PyTrue

\* the error the claim's example of an unsupported operator raises
OperatorErrorExample ==
    _single_marker_to_rpm_condition(Leaf("platform_machine", "<", "x86_64"), templates)

\* C5, as stated: the Leaf Translator fails exactly for an unsupported variable
\* and for an unsupported operator, with two distinct kinds of error.
C5_AsStated ==
    OnSingleMarker =>
        /\ (result.kind = "raise") <=> (UnsupportedVariable \/ UnsupportedOperator)
        /\ UnsupportedVariable =>
               /\ result.kind = "raise"
               /\ result.exc # OperatorErrorExample.exc

\* C5, as amended: the Leaf Translator fails exactly in those cases; both
\* failures are a ValueError, told apart by the message only.
C5_TranslatorErrors ==
    OnSingleMarker =>
        /\ (result.kind = "raise") <=> (UnsupportedVariable \/ UnsupportedOperator)
        /\ UnsupportedVariable =>
               result = Raise("ValueError", "Unsupported marker " \o marker.variable)
        /\ UnsupportedOperator =>
               /\ result.kind = "raise"
               /\ result.exc = "ValueError"
               /\ StartsWith(result.msg, "Unsupported operator " \o marker.operator)

\* sys_platform == "win32" has no rendering
C5_Witness ==
    /\ OnSingleMarker
    /\ marker = Leaf("sys_platform", "==", "win32")
    /\ result.kind = "raise"

\* the clauses the specification gives one specifier, its version without a
\* trailing .*
Unstarred(v) ==
    IF Len(v) >= 2 /\ SubSeq(v, Len(v) - 1, Len(v)) = ".*" THEN SubSeq(v, 1, Len(v) - 2) ELSE v

ExpectedClauses(pkg, spec) ==
    LET v == Unstarred(spec.version)
        Plain(op) == <<pkg \o " " \o op \o " " \o v>>
    IN  CASE spec.operator \in {"==", "==="} -> Plain("=")
          [] spec.operator \in {"<", "<=", ">=", ">"} -> Plain(spec.operator)
          [] spec.operator = "!=" -> <<"(" \o pkg \o " < " \o v \o " or " \o pkg \o " > " \o v \o ")">>
          [] spec.operator = "~=" -> <<pkg \o " >= " \o v, pkg \o " < " \o v \o "^zzz">>

CompatibleCount(specs) == Cardinality({i \in 1..Len(specs) : specs[i].operator = "~="})

\* the number of clauses of a requirement string: its parts between ", "
ClauseCount(s) == 1 + Cardinality({i \in 1..(Len(s) - 1) : SubSeq(s, i, i + 1) = ", "})

\* C6: the result is the bare package name iff the specifier set is empty;
\* otherwise it is the clauses of all specifiers joined with ", " in iteration
\* order, one clause per specifier and two for ~=, none dropped.
C6_SpecifierClauses ==
    OnSpecifier =>
        /\ (result = Str(package)) <=> (Len(version) = 0)
        /\ Len(version) > 0 =>
               /\ result = Str(Join(", ", Flatten([i \in 1..Len(version) |->
                                                      ExpectedClauses(package, version[i])])))
               /\ ClauseCount(result.s) = Len(version) + CompatibleCount(version)

\* the set {"!=1.*", "~=1.4"} in that order
C6_Witness ==
    /\ OnSpecifier
    /\ package = "foo"
    /\ version = <<Specifier("!=", "1.*"), Specifier("~=", "1.4")>>
    /\ result = Str("(foo < 1 or foo > 1), foo >= 1.4, foo < 1.4^zzz")

\* the package token of a version or kernel leaf
PackageToken ==
    IF marker.variable = "platform_release" THEN "kernel" ELSE templates.python_abi

\* C7: a leaf on an interpreter-version variable or on platform_release is
\* rendered with the ABI template, or "kernel", as package: the six plain
\* operators as "<package> <rpm-op> <version>", ~= with the sentinel ^next
\* and != as the two-sided alternative; the specifier translator's ~= carries
\* ^zzz, never ^next.
C7_VersionLeafRendering ==
    /\ (OnSingleMarker /\ marker.variable \in VersionVariables \cup {"platform_release"}) =>
        LET pkg == PackageToken
            v == marker.value
            op == marker.operator
        IN  /\ op \in {"==", "==="} => result = Str(pkg \o " = " \o v)
            /\ op \in {"<", "<=", ">=", ">"} => result = Str(pkg \o " " \o op \o " " \o v)
            /\ op = "~=" =>
                   /\ result = Str("(" \o pkg \o " >= " \o v \o " and " \o pkg \o " < " \o v \o "^next)")
                   /\ Contains(result.s, "^next")
                   /\ ~Contains(result.s, "^zzz")
            /\ op = "!=" =>
                   result = Str("(" \o pkg \o " < " \o v \o " or " \o pkg \o " > " \o v \o ")")
    /\ (OnSpecifier /\ CompatibleCount(version) > 0) =>
           /\ Contains(result.s, "^zzz")
           /\ ~Contains(result.s, "^next")

\* python_version ~= "3.8" with the ABI token python(abi)
C7_Witness ==
    /\ OnSingleMarker
    /\ marker = Leaf("python_version", "~=", "3.8")
    /\ result = Str("(python(abi) >= 3.8 and python(abi) < 3.8^next)")

\* C8: when two or more OR-clauses survive and none is true, the result is
\* "(" + the surviving clauses joined with " or " + ")", in source order, a
\* clause of several elements joined with " and ", equal clauses kept.
C8_SeveralClausesRendered ==
    (OnList /\ FoldsWithoutError(marker.children)) =>
        LET surviving == Surviving(marker.children)
        IN  (/\ Len(surviving) >= 2
             /\ \A k \in 1..Len(surviving) : Len(surviving[k]) >= 1) =>
                result = Str("(" \o Join(" or ", Map(AndRendered, surviving)) \o ")")

\* two equal clauses survive, or a clause of two elements beside another
C8_Witness ==
    /\ OnList
    /\ result.kind = "str"
    /\ LET surviving == Surviving(marker.children)
       IN  /\ Len(surviving) = 2
           /\ Len(surviving[1]) = 2
           /\ surviving[1][1] # surviving[1][2]
           /\ surviving[2] = <<surviving[1][2]>>

\* the leaves of a list at any depth, in source order
RECURSIVE LeavesOf(_)
LeavesOf(children) ==
    IF Len(children) = 0 THEN <<>>
    ELSE LET first == Head(children)
         IN  (IF first.type = "leaf" THEN <<first>>
              ELSE IF first.type = "group" THEN LeavesOf(first.children)
              ELSE <<>>) \o LeavesOf(Tail(children))

\* the leaf stays symbolic: its variable is not in the environment, or its
\* candidates are mixed
StaysSymbolic(leaf) ==
    \/ leaf.variable \notin DOMAIN environments
    \/ LET known == environments[leaf.variable].items
       IN  /\ \E i \in 1..Len(known) : Holds(leaf.operator, known[i], leaf.value)
           /\ \E i \in 1..Len(known) : ~Holds(leaf.operator, known[i], leaf.value)

Unrepresentable(leaf) ==
    StaysSymbolic(leaf) /\ _single_marker_to_rpm_condition(leaf, templates).kind = "raise"

\* C9: a list is evaluated eagerly: if any leaf at any depth stays symbolic
\* and has no rendering, the call raises that error (the first in source
\* order), whatever the other sub-expressions fold to.
C9_EagerFailure ==
    OnList =>
        LET leaves == LeavesOf(marker.children)
            bad == {i \in 1..Len(leaves) : Unrepresentable(leaves[i])}
        IN  /\ (result.kind = "raise") <=> (bad # {})
            /\ bad # {} =>
                   LET first == CHOOSE i \in bad : \A j \in bad : i <= j
                   IN  result = _single_marker_to_rpm_condition(leaves[first], templates)

\* a clause folds to true (or a sibling to false) beside a leaf with no
\* rendering, inside a nested list
C9_Witness ==
    /\ OnList
    /\ result.kind = "raise"
    /\ Len(marker.children) = 3
    /\ Fold(marker.children[1]) = PyTrue
    /\ marker.children[2] = Conn("or")
    /\ marker.children[3].type = "group"
    /\ Fold(marker.children[3].children[1]) = PyFalse
    /\ marker.children[3].children[2] = Conn("and")

\* C10: a leaf whose variable is known and whose comparison holds for all
\* candidates or for none returns the boolean without a call of the Leaf
\* Translator, so without its errors; the translator is called only for a
\* variable absent from the environment or for mixed candidates.
C10_ErrorsOnlyFromSymbolic ==
    OnTuple =>
        /\ (Known /\ (HoldsForAll \/ HoldsForNone)) =>
               /\ result.kind = "bool"
               /\ translated = <<>>
        /\ translated # <<>> =>
               /\ translated = <<marker>>
               /\ ~Known \/ (~HoldsForAll /\ ~HoldsForNone /\ marker.variable # "extras")
        /\ result.kind = "raise" => translated # <<>>

\* sys_platform == "win32", unrenderable, folds to false for sys_platform linux
C10_Witness ==
    /\ OnTuple
    /\ marker = Leaf("sys_platform", "==", "win32")
    /\ DOMAIN environments = {"sys_platform"}
    /\ environments["sys_platform"] = Single("linux")
    /\ result = PyFalse
    /\ translated = <<>>

====
